---- MODULE Spec2Model ----
(***************************************************************************)
(* Key-rotating reverse proxy (gemini-polling-proxy).                      *)
(*                                                                         *)
(* The repository holds two variants of the same request handler:          *)
(*   src/main.ts            ("main")                                       *)
(*   src/unnamed/part_000   ("part000")                                    *)
(* Both are modelled side by side: every request and every upstream        *)
(* outcome is given to both variants, each variant keeps its own           *)
(* rotationState and its own handler frames.                               *)
(*                                                                         *)
(* Strings are sequences of one-character strings, so that split, trim,    *)
(* join and replace are computed as the code computes them.                *)
(*                                                                         *)
(* A handler runs atomically between two awaits (single-threaded event     *)
(* loop).  The awaits are: sha256 (digest) and fetch (upstream call).      *)
(***************************************************************************)
EXTENDS Integers, Sequences, FiniteSets, TLC

VARIABLES
    PROXY_MASTER_KEY,      \* Deno.env.get("API_KEY"): optional string
    BUILT_IN_GOOGLE_KEYS,  \* Deno.env.get("TOKENS"): optional string
    env,                   \* the clients and the upstream of this run: the inputs they may send
    rotationState,         \* per variant: Map<string, number>
    req,                   \* per variant, per request slot: the handler's frame
    streak                 \* history, per variant and identity: the key indices used by the
                           \* latest requests of that identity, as long as each of them
                           \* succeeded on its first key (kept when env.history)

vars == <<PROXY_MASTER_KEY, BUILT_IN_GOOGLE_KEYS, env, rotationState, req, streak>>

----------------------------------------------------------------------------
(* Bounds *)

\* longest key list the clients send
MaxKeys == 3
\* number of requests the server handles at a time
MaxInFlight == 2

RequestIds == 1..MaxInFlight
Variants == {"main", "part000"}

----------------------------------------------------------------------------
(* Optional values: undefined / null against a string *)

None == [present |-> FALSE, val |-> <<>>]
Some(s) == [present |-> TRUE, val |-> s]

\* JavaScript truthiness of an optional string: undefined, null and "" are falsy
Truthy(o) == o.present /\ o.val # <<>>

----------------------------------------------------------------------------
(* Strings *)

BEARER == <<"B", "e", "a", "r", "e", "r", " ">>

WhiteSpace == {" "}

RECURSIVE IndexOfFrom(_, _, _)
\* first position >= from at which pat occurs in s, 0 when there is none
IndexOfFrom(s, pat, from) ==
    IF from + Len(pat) - 1 > Len(s) THEN 0
    ELSE IF SubSeq(s, from, from + Len(pat) - 1) = pat THEN from
    ELSE IndexOfFrom(s, pat, from + 1)

\* String.prototype.replace(pattern: string, replacement): the first occurrence only
Replace(s, pat, rep) ==
    LET p == IndexOfFrom(s, pat, 1) IN
    IF p = 0 THEN s
    ELSE SubSeq(s, 1, p - 1) \o rep \o SubSeq(s, p + Len(pat), Len(s))

RECURSIVE Split(_, _)
\* String.prototype.split(sep) for a one-character separator
Split(s, sep) ==
    LET p == IndexOfFrom(s, <<sep>>, 1) IN
    IF p = 0 THEN <<s>>
    ELSE <<SubSeq(s, 1, p - 1)>> \o Split(SubSeq(s, p + 1, Len(s)), sep)

RECURSIVE TrimStart(_)
TrimStart(s) ==
    IF s # <<>> /\ Head(s) \in WhiteSpace THEN TrimStart(Tail(s)) ELSE s

RECURSIVE TrimEnd(_)
TrimEnd(s) ==
    IF s # <<>> /\ s[Len(s)] \in WhiteSpace THEN TrimEnd(SubSeq(s, 1, Len(s) - 1)) ELSE s

\* String.prototype.trim
Trim(s) == TrimEnd(TrimStart(s))

RECURSIVE FilterBoolean(_)
\* Array.prototype.filter(Boolean) on strings: drops the empty ones
FilterBoolean(list) ==
    IF list = <<>> THEN <<>>
    ELSE IF Head(list) = <<>> THEN FilterBoolean(Tail(list))
    ELSE <<Head(list)>> \o FilterBoolean(Tail(list))

RECURSIVE JoinNoSeparator(_)
\* mutant: join(""), the keys are put together without a separator
JoinNoSeparator(list) ==
    IF list = <<>> THEN <<>>
    ELSE Head(list) \o JoinNoSeparator(Tail(list))

RECURSIVE Join(_)
\* Array.prototype.join() with the default separator ","
Join(list) ==
    IF list = <<>> THEN <<>>
    ELSE IF Len(list) = 1 THEN Head(list)
    ELSE Head(list) \o <<",">> \o Join(Tail(list))

\* googleApiKeysString.split(",").map(k => k.trim()).filter(Boolean)
ParseKeys(s) ==
    LET parts == Split(s, ",") IN
    FilterBoolean([k \in 1..Len(parts) |-> Trim(parts[k])])

\* sha256 followed by hex encoding: a digest, taken to be free of collisions
sha256(text) == <<"sha256:">> \o text

----------------------------------------------------------------------------
(* Headers: a set of <<name, value>> pairs, one pair per name; names are    *)
(* written in lower case (the Headers class ignores case), values are       *)
(* strings.                                                                 *)

HeadersHas(h, name) == \E p \in h : p[1] = name

\* Headers.prototype.get: null when the header is absent
HeadersGet(h, name) ==
    IF HeadersHas(h, name) THEN Some((CHOOSE p \in h : p[1] = name)[2]) ELSE None

\* Headers.prototype.set: replaces any prior value
HeadersSet(h, name, value) == {p \in h : p[1] # name} \cup {<<name, value>>}

\* Headers.prototype.delete
HeadersDelete(h, name) == {p \in h : p[1] # name}

GOOGLE_API_HOST == <<"https://generativelanguage.googleapis.com">>
\* new URL(GOOGLE_API_HOST).host
GOOGLE_API_HOSTNAME == <<"generativelanguage.googleapis.com">>

ALLOW_ORIGIN == "access-control-allow-origin"
CONTENT_TYPE_JSON == <<"content-type", <<"application/json">>>>

----------------------------------------------------------------------------
(* Responses *)

NullBody == [kind |-> "null", error |-> "", key |-> <<>>, status |-> 0]
\* JSON.stringify({ error: message })
JsonError(message) == [kind |-> "json", error |-> message, key |-> <<>>, status |-> 0]
\* the body stream of the upstream's answer to the call made with `key`
UpstreamBody(key, status) == [kind |-> "upstream", error |-> "", key |-> key, status |-> status]

NoResponse == [status |-> 0, body |-> NullBody, headers |-> {}]

\* the preflight answer (both variants)
PreflightResponse ==
    [status |-> 204, body |-> NullBody,
     headers |-> {<<ALLOW_ORIGIN, <<"*">>>>,
                  <<"access-control-allow-methods", <<"POST, GET, OPTIONS">>>>,
                  <<"access-control-allow-headers",
                    <<"Content-Type, Authorization, x-google-api-key">>>>}]

\* the security check's answer (both variants)
UnauthorizedResponse ==
    [status |-> 401, body |-> JsonError("Invalid API Key for proxy service."),
     headers |-> {CONTENT_TYPE_JSON}]

\* no key source (both variants)
NoKeysResponse ==
    [status |-> 400, body |-> JsonError("No Google API Keys were provided."),
     headers |-> {CONTENT_TYPE_JSON}]

\* key source without a key (both variants)
EmptyKeysResponse ==
    [status |-> 400, body |-> JsonError("Google API Keys list is empty."),
     headers |-> {CONTENT_TYPE_JSON}]

\* mutant: a 3xx counts as a success
ResponseOkUpTo399(response) == response.status >= 200 /\ response.status <= 399

\* response.ok: the status is in 200..299
ResponseOk(response) == response.status >= 200 /\ response.status <= 299

\* the success path: the upstream response with the CORS header set (both variants)
SuccessResponse(response) ==
    [status |-> response.status, body |-> response.body,
     headers |-> HeadersSet(response.headers, ALLOW_ORIGIN, <<"*">>)]

\* main.ts: `return response;`
PassThroughMain(response) == response

\* part_000: the upstream response with the CORS header set
PassThroughPart000(response) ==
    [status |-> response.status, body |-> response.body,
     headers |-> HeadersSet(response.headers, ALLOW_ORIGIN, <<"*">>)]

PassThrough(v, response) ==
    IF v = "main" THEN PassThroughMain(response) ELSE PassThroughPart000(response)

\* main.ts: all keys failed
AllFailedMain ==
    [status |-> 502, body |-> JsonError("All provided Google API Keys failed."),
     headers |-> {CONTENT_TYPE_JSON}]

\* part_000: all keys failed
AllFailedPart000 ==
    [status |-> 502, body |-> JsonError("All provided Google API Keys failed."),
     headers |-> {CONTENT_TYPE_JSON, <<ALLOW_ORIGIN, <<"*">>>>}]

AllFailed(v) == IF v = "main" THEN AllFailedMain ELSE AllFailedPart000

----------------------------------------------------------------------------
(* rotationState: Map<string, number>, a function on the identities seen *)

EmptyMap == [h \in {} |-> 0]

MapHas(m, k) == k \in DOMAIN m

\* mutant: the map is replaced by one that holds the new entry only
MapSetForgetting(m, k, x) == [h \in {k} |-> x]

\* Map.prototype.set
MapSet(m, k, x) == [h \in (DOMAIN m) \cup {k} |-> IF h = k THEN x ELSE m[h]]

\* mutant: every request starts at the first key
StartIndexOfFirstKey(m, keysHash) == 0

\* rotationState.get(keysHash) || 0
StartIndexOf(m, keysHash) ==
    IF MapHas(m, keysHash) /\ m[keysHash] # 0 THEN m[keysHash] ELSE 0

----------------------------------------------------------------------------
(* The handler's frame *)

NoCall == [made |-> FALSE, rejected |-> FALSE, url |-> <<>>, method |-> "",
           headers |-> {}, body |-> "null"]

NoRequest == [method |-> "", url |-> <<>>, headers |-> {}, body |-> "null"]

IdleFrame ==
    [pc |-> "idle",            \* idle, sha256 (awaiting the digest), fetch (awaiting the upstream), done
     request |-> NoRequest,    \* req
     bodyUsed |-> FALSE,       \* req.body is locked or disturbed
     googleApiKeys |-> <<>>,
     keysHash |-> <<>>,
     startIndex |-> 0,
     i |-> 0,
     keyIndex |-> 0,
     call |-> NoCall,          \* the fetch awaited
     attempts |-> <<>>,        \* the fetch calls settled so far: key index and outcome
     reads |-> 0,              \* rotationState.get calls
     writes |-> 0,             \* rotationState.set calls
     response |-> NoResponse]

\* the frame of a handler that has returned `response`
Return(rq, response) == [rq EXCEPT !.pc = "done", !.call = NoCall, !.response = response]

\* headers.get("Authorization")?.replace("Bearer ", "")
ClientAuthToken(headers) ==
    LET a == HeadersGet(headers, "authorization") IN
    IF a.present THEN Some(Replace(a.val, BEARER, <<>>)) ELSE None

\* mutant: a request without a token passes the security check
SecurityCheckFailsWithToken(masterKey, clientAuthToken) ==
    Truthy(masterKey) /\ clientAuthToken.present /\ clientAuthToken # masterKey

\* mutant: an empty master credential counts as configured
SecurityCheckFailsWhenEmpty(masterKey, clientAuthToken) ==
    masterKey.present /\ clientAuthToken # masterKey

\* PROXY_MASTER_KEY && clientAuthToken !== PROXY_MASTER_KEY
SecurityCheckFails(masterKey, clientAuthToken) ==
    Truthy(masterKey) /\ clientAuthToken # masterKey

\* mutant: keysFromHeader ?? BUILT_IN_GOOGLE_KEYS, an empty header is not replaced
KeysStringNullish(keysFromHeader, builtIn) ==
    IF keysFromHeader.present THEN keysFromHeader ELSE builtIn

\* keysFromHeader || BUILT_IN_GOOGLE_KEYS
KeysString(keysFromHeader, builtIn) ==
    IF Truthy(keysFromHeader) THEN keysFromHeader ELSE builtIn

\* mutant: the security check comes before the preflight answer
HandlerEntryCheckFirst(rq, request, masterKey, builtIn) ==
    LET fr == [rq EXCEPT !.request = request]
        clientAuthToken == ClientAuthToken(request.headers)
        keysFromHeader == HeadersGet(request.headers, "x-google-api-key")
        googleApiKeysString == KeysString(keysFromHeader, builtIn)
        googleApiKeys == ParseKeys(googleApiKeysString.val)
    IN  IF SecurityCheckFails(masterKey, clientAuthToken)
            THEN Return(fr, UnauthorizedResponse)
        ELSE IF request.method = "OPTIONS" THEN Return(fr, PreflightResponse)
        ELSE IF ~Truthy(googleApiKeysString) THEN Return(fr, NoKeysResponse)
        ELSE IF Len(googleApiKeys) = 0 THEN Return(fr, EmptyKeysResponse)
        ELSE [fr EXCEPT !.pc = "sha256", !.googleApiKeys = googleApiKeys]

\* handler, from its entry to `await sha256(...)` or to an early return
HandlerEntry(rq, request, masterKey, builtIn) ==
    LET fr == [rq EXCEPT !.request = request]
        clientAuthToken == ClientAuthToken(request.headers)
        keysFromHeader == HeadersGet(request.headers, "x-google-api-key")
        googleApiKeysString == KeysString(keysFromHeader, builtIn)
        googleApiKeys == ParseKeys(googleApiKeysString.val)
    IN  IF request.method = "OPTIONS" THEN Return(fr, PreflightResponse)
        ELSE IF SecurityCheckFails(masterKey, clientAuthToken)
            THEN Return(fr, UnauthorizedResponse)
        ELSE IF ~Truthy(googleApiKeysString) THEN Return(fr, NoKeysResponse)
        ELSE IF Len(googleApiKeys) = 0 THEN Return(fr, EmptyKeysResponse)
        ELSE [fr EXCEPT !.pc = "sha256", !.googleApiKeys = googleApiKeys]

\* mutant: the Authorization header is left in the forwarded request
ProxyReqHeadersKeepingAuthorization(headers, currentGoogleKey) ==
    HeadersDelete(
        HeadersSet(HeadersSet(headers, "host", GOOGLE_API_HOSTNAME),
                   "x-goog-api-key", currentGoogleKey),
        "x-google-api-key")

\* the headers of the request forwarded to the upstream
ProxyReqHeaders(headers, currentGoogleKey) ==
    HeadersDelete(
        HeadersDelete(
            HeadersSet(HeadersSet(headers, "host", GOOGLE_API_HOSTNAME),
                       "x-goog-api-key", currentGoogleKey),
            "authorization"),
        "x-google-api-key")

\* (startIndex + i) % googleApiKeys.length
KeyIndex(startIndex, i, length) == (startIndex + i) % length

\* the top of the loop body, up to `await fetch(...)`: a stream that an earlier fetch
\* took is locked, and fetch rejects without calling the upstream
LoopBody(rq) ==
    LET keyIndex == KeyIndex(rq.startIndex, rq.i, Len(rq.googleApiKeys))
        currentGoogleKey == rq.googleApiKeys[keyIndex + 1]
        unusable == rq.request.body = "stream" /\ rq.bodyUsed
    IN  [rq EXCEPT !.pc = "fetch",
                   !.keyIndex = keyIndex,
                   !.call = [made |-> ~unusable, rejected |-> unusable,
                             url |-> GOOGLE_API_HOST \o rq.request.url,
                             method |-> rq.request.method,
                             headers |-> ProxyReqHeaders(rq.request.headers, currentGoogleKey),
                             body |-> rq.request.body]]

\* handler, from the digest to the first `await fetch(...)`
HandlerAfterDigest(m, rq) ==
    LET keysHash == sha256(Join(rq.googleApiKeys))
        startIndex == StartIndexOf(m, keysHash)
    IN  LoopBody([rq EXCEPT !.keysHash = keysHash, !.startIndex = startIndex,
                            !.i = 0, !.reads = @ + 1])

\* mutant: every error status is taken for a rejected key
IsClientErrorOrServerError(status) == status >= 400

\* mutant: a 400 is not taken for a rejected key
IsClientErrorAbove400(status) == status > 400 /\ status < 500

\* response.status >= 400 && response.status < 500
IsClientError(status) == status >= 400 /\ status < 500

\* mutant: the success path stores the index of the key that succeeded
NextStartIndexSameKey(keyIndex, length) == keyIndex % length

\* mutant: the success path stores the next index without the modulo
NextStartIndexNoWrap(keyIndex, length) == keyIndex + 1

\* (keyIndex + 1) % googleApiKeys.length
NextStartIndex(keyIndex, length) == (keyIndex + 1) % length

\* mutant: a failed attempt moves the stored index on
NextIterationStoring(v, m, rq) ==
    IF rq.i + 1 < Len(rq.googleApiKeys)
    THEN [m |-> MapSet(m, rq.keysHash, (rq.keyIndex + 1) % Len(rq.googleApiKeys)),
          rq |-> LoopBody([rq EXCEPT !.i = @ + 1])]
    ELSE [m |-> MapSet(m, rq.keysHash, 0),
          rq |-> Return([rq EXCEPT !.i = @ + 1, !.writes = @ + 1], AllFailed(v))]

\* mutant: when all keys failed the stored index is left as it is
NextIterationNoReset(v, m, rq) ==
    IF rq.i + 1 < Len(rq.googleApiKeys)
    THEN [m |-> m, rq |-> LoopBody([rq EXCEPT !.i = @ + 1])]
    ELSE [m |-> m, rq |-> Return([rq EXCEPT !.i = @ + 1], AllFailed(v))]

\* mutant: every iteration reads the stored start index again
NextIterationRereading(v, m, rq) ==
    IF rq.i + 1 < Len(rq.googleApiKeys)
    THEN [m |-> m,
          rq |-> LoopBody([rq EXCEPT !.i = @ + 1,
                                     !.startIndex = StartIndexOf(m, rq.keysHash)])]
    ELSE [m |-> MapSet(m, rq.keysHash, 0),
          rq |-> Return([rq EXCEPT !.i = @ + 1, !.writes = @ + 1], AllFailed(v))]

\* mutant: the loop test is i <= googleApiKeys.length
NextIterationOneMore(v, m, rq) ==
    IF rq.i + 1 <= Len(rq.googleApiKeys)
    THEN [m |-> m, rq |-> LoopBody([rq EXCEPT !.i = @ + 1])]
    ELSE [m |-> MapSet(m, rq.keysHash, 0),
          rq |-> Return([rq EXCEPT !.i = @ + 1, !.writes = @ + 1], AllFailed(v))]

\* the end of the loop body: i++ and the loop test, then the next fetch or "all keys failed"
NextIteration(v, m, rq) ==
    IF rq.i + 1 < Len(rq.googleApiKeys)
    THEN [m |-> m, rq |-> LoopBody([rq EXCEPT !.i = @ + 1])]
    ELSE [m |-> MapSet(m, rq.keysHash, 0),
          rq |-> Return([rq EXCEPT !.i = @ + 1, !.writes = @ + 1], AllFailed(v))]

Thrown(locked) == [kind |-> "throw", status |-> 0, headers |-> {}, locked |-> locked]
Responded(status, headers) ==
    [kind |-> "response", status |-> status, headers |-> headers, locked |-> TRUE]

\* mutant: part_000 does not return on a 5xx but falls through to the end of the loop body
HandlerAfterFetchFallingThrough(v, m, rq0, outcome) ==
    LET settled == IF rq0.call.rejected THEN Thrown(TRUE) ELSE outcome
        length == Len(rq0.googleApiKeys)
        currentGoogleKey == rq0.googleApiKeys[rq0.keyIndex + 1]
        response == [status |-> settled.status,
                     body |-> UpstreamBody(currentGoogleKey, settled.status),
                     headers |-> settled.headers]
        rq == [rq0 EXCEPT
                 !.bodyUsed = @ \/ (rq0.request.body = "stream" /\ rq0.call.made
                                     /\ settled.locked),
                 !.attempts = Append(@, [keyIndex |-> rq0.keyIndex,
                                         status |-> settled.status,
                                         made |-> rq0.call.made])]
    IN  IF settled.kind = "throw" THEN NextIteration(v, m, rq)
        ELSE IF ResponseOk(response)
            THEN [m |-> MapSet(m, rq.keysHash, NextStartIndex(rq.keyIndex, length)),
                  rq |-> Return([rq EXCEPT !.writes = @ + 1], SuccessResponse(response))]
        ELSE IF IsClientError(response.status) \/ v = "part000" THEN NextIteration(v, m, rq)
        ELSE [m |-> m, rq |-> Return(rq, PassThrough(v, response))]

\* handler, from the settling of `await fetch(...)` to the next await or to its return
HandlerAfterFetch(v, m, rq0, outcome) ==
    LET settled == IF rq0.call.rejected THEN Thrown(TRUE) ELSE outcome
        length == Len(rq0.googleApiKeys)
        currentGoogleKey == rq0.googleApiKeys[rq0.keyIndex + 1]
        response == [status |-> settled.status,
                     body |-> UpstreamBody(currentGoogleKey, settled.status),
                     headers |-> settled.headers]
        rq == [rq0 EXCEPT
                 !.bodyUsed = @ \/ (rq0.request.body = "stream" /\ rq0.call.made
                                     /\ settled.locked),
                 !.attempts = Append(@, [keyIndex |-> rq0.keyIndex,
                                         status |-> settled.status,
                                         made |-> rq0.call.made])]
    IN  IF settled.kind = "throw" THEN NextIteration(v, m, rq)
        ELSE IF ResponseOk(response)
            THEN [m |-> MapSet(m, rq.keysHash, NextStartIndex(rq.keyIndex, length)),
                  rq |-> Return([rq EXCEPT !.writes = @ + 1], SuccessResponse(response))]
        ELSE IF IsClientError(response.status) THEN NextIteration(v, m, rq)
        ELSE [m |-> m, rq |-> Return(rq, PassThrough(v, response))]

----------------------------------------------------------------------------
(* The clients and the upstream *)

KeyChars == <<"a", "b", "c", "d", "e", "f">>

RECURSIVE PlainSource(_)
\* "a,b,c": n keys
PlainSource(n) ==
    IF n = 1 THEN <<KeyChars[1]>> ELSE PlainSource(n - 1) \o <<",", KeyChars[n]>>

RECURSIVE ReversedSource(_)
\* "c,b,a": the same keys in the opposite order
ReversedSource(n) ==
    IF n = 1 THEN <<KeyChars[1]>> ELSE <<KeyChars[n], ",">> \o ReversedSource(n - 1)

RECURSIVE PaddedSource(_)
\* " a , ,b , ,c ,": the keys of PlainSource(n) with blanks and empty entries
PaddedSource(n) ==
    IF n = 0 THEN <<" ">> ELSE PaddedSource(n - 1) \o <<KeyChars[n], " ", ",", " ", ",">>

\* key sources that hold no key
KeylessSources == {<<>>, <<" ">>, <<",">>, <<" ", ",", " ", ",", " ">>}

MasterKey == <<"s", "k">>

\* Authorization header values
AuthValues ==
    {BEARER \o MasterKey, BEARER \o <<"w">>, MasterKey, <<"w">>,
     BEARER \o BEARER \o MasterKey, <<"s">> \o BEARER \o <<"k">>}

\* the headers a client sends beside Authorization and x-google-api-key
BaseHeaders == {<<"host", <<"proxy.example">>>>, <<"content-type", <<"application/json">>>>}
ClientKeyHeaders == BaseHeaders \cup {<<"x-goog-api-key", <<"z">>>>}

InboundRequest(method, auth, keys, others) ==
    [method |-> method,
     url |-> <<"/v1beta/models", "?alt=sse">>,
     headers |-> others
                 \cup (IF auth.present THEN {<<"authorization", auth.val>>} ELSE {})
                 \cup (IF keys.present THEN {<<"x-google-api-key", keys.val>>} ELSE {}),
     body |-> IF method = "POST" THEN "stream" ELSE "null"]

\* the headers of an upstream answer
UpstreamHeaders ==
    {{<<"content-type", <<"application/json">>>>},
     {<<"content-type", <<"application/json">>>>, <<ALLOW_ORIGIN, <<"https://a.example">>>>}}

Outcomes(statuses, headerSets) ==
    {Thrown(l) : l \in BOOLEAN}
    \cup {Responded(st, h) : st \in statuses, h \in headerSets}

----------------------------------------------------------------------------
(* Actions *)

Running(rq) == rq.pc \in {"sha256", "fetch"}

InFlight == {r \in RequestIds : \E v \in Variants : Running(req[v][r])}

\* the log of one identity after the request of frame rq was answered
StreakAfter(log, rq) ==
    IF rq.pc # "done" \/ rq.attempts = <<>> THEN log
    ELSE LET old == IF MapHas(log, rq.keysHash) THEN log[rq.keysHash] ELSE <<>>
             first == rq.attempts[1]
             new == IF Len(rq.attempts) = 1 /\ first.status \in 200..299
                    THEN LET all == Append(old, first.keyIndex)
                             drop == IF Len(all) > Len(rq.googleApiKeys) THEN 1 ELSE 0
                         IN  SubSeq(all, 1 + drop, Len(all))
                    ELSE <<>>
         IN  IF new = <<>> THEN [h \in (DOMAIN log) \ {rq.keysHash} |-> log[h]]
             ELSE MapSet(log, rq.keysHash, new)

\* the frames once the handler of slot r has run to `frame`: the server keeps the frame of
\* the latest answered request only
Frames(frames, r, frame) ==
    [q \in RequestIds |->
       IF q = r THEN frame
       ELSE IF frame.pc = "done" /\ frames[q].pc = "done" THEN IdleFrame
       ELSE frames[q]]

\* a request arrives: serve calls handler(req), which runs to its first await or returns
Receive(r) ==
    /\ \A v \in Variants : ~Running(req[v][r])
    /\ \A q \in RequestIds : q < r => q \in InFlight
    /\ Cardinality(InFlight) < env.inflight
    /\ \E method \in env.methods, auth \in env.auths, keys \in env.keys, others \in env.others :
         LET request == InboundRequest(method, auth, keys, others) IN
         req' = [v \in Variants |->
                   Frames(req[v], r, HandlerEntry(IdleFrame, request, PROXY_MASTER_KEY,
                                                   BUILT_IN_GOOGLE_KEYS))]
    /\ UNCHANGED <<PROXY_MASTER_KEY, BUILT_IN_GOOGLE_KEYS, env, rotationState, streak>>

\* the digest of request r is computed: the handler reads rotationState and calls fetch
Digest(r) ==
    /\ \E v \in Variants : req[v][r].pc = "sha256"
    /\ req' = [v \in Variants |->
                 IF req[v][r].pc = "sha256"
                 THEN Frames(req[v], r, HandlerAfterDigest(rotationState[v], req[v][r]))
                 ELSE req[v]]
    /\ UNCHANGED <<PROXY_MASTER_KEY, BUILT_IN_GOOGLE_KEYS, env, rotationState, streak>>

\* the fetch of request r settles: the upstream answers, or the call fails
Settle(r) ==
    /\ \E v \in Variants : req[v][r].pc = "fetch"
    /\ \E outcome \in env.outcomes :
         LET after == [v \in Variants |->
                         IF req[v][r].pc = "fetch"
                         THEN HandlerAfterFetch(v, rotationState[v], req[v][r], outcome)
                         ELSE [m |-> rotationState[v], rq |-> req[v][r]]]
         IN  /\ rotationState' = [v \in Variants |-> after[v].m]
             /\ req' = [v \in Variants |-> Frames(req[v], r, after[v].rq)]
             /\ streak' = [v \in Variants |->
                             IF env.history /\ req[v][r].pc = "fetch"
                             THEN StreakAfter(streak[v], after[v].rq) ELSE streak[v]]
    /\ UNCHANGED <<PROXY_MASTER_KEY, BUILT_IN_GOOGLE_KEYS, env>>

Next == \E r \in RequestIds : Receive(r) \/ Digest(r) \/ Settle(r)

----------------------------------------------------------------------------
(* Specifications *)

Opt(S) == {None} \cup {Some(s) : s \in S}

InitState ==
    /\ rotationState = [v \in Variants |-> EmptyMap]
    /\ req = [v \in Variants |-> [r \in RequestIds |-> IdleFrame]]
    /\ streak = [v \in Variants |-> EmptyMap]

\* every kind of request against every configuration, one request at a time
InitResolver ==
    /\ PROXY_MASTER_KEY \in Opt({<<>>, MasterKey})
    /\ BUILT_IN_GOOGLE_KEYS \in Opt({<<>>, <<" ", ",">>, PlainSource(2)})
    /\ env = [methods |-> {"OPTIONS", "GET", "POST"},
              auths |-> Opt(AuthValues),
              keys |-> Opt(KeylessSources \cup {PlainSource(1), PaddedSource(2)}),
              others |-> {BaseHeaders},
              outcomes |-> {Responded(200, {})},
              inflight |-> 1,
              history |-> FALSE]
    /\ InitState

SpecResolver == InitResolver /\ [][Next]_vars

\* one request at a time, every kind of upstream answer
InitSequential ==
    /\ PROXY_MASTER_KEY = Some(MasterKey)
    /\ BUILT_IN_GOOGLE_KEYS = Some(PlainSource(MaxKeys))
    /\ env = [methods |-> {"GET", "POST"},
              auths |-> {Some(BEARER \o MasterKey)},
              keys |-> {None, Some(PlainSource(1)), Some(ReversedSource(2))},
              others |-> {ClientKeyHeaders},
              outcomes |-> Outcomes({200, 299, 304, 400, 429, 499, 500}, UpstreamHeaders),
              inflight |-> 1,
              history |-> FALSE]
    /\ InitState

SpecSequential == InitSequential /\ [][Next]_vars

\* one request at a time, all with the same key list, the indices used are recorded
InitRoundRobin ==
    /\ PROXY_MASTER_KEY = None
    /\ BUILT_IN_GOOGLE_KEYS \in {Some(PlainSource(n)) : n \in 1..MaxKeys}
    /\ env = [methods |-> {"GET", "POST"},
              auths |-> {None},
              keys |-> {None, Some(PaddedSource(MaxKeys))},
              others |-> {BaseHeaders},
              outcomes |-> Outcomes({200, 429, 500}, {{}}),
              inflight |-> 1,
              history |-> TRUE]
    /\ InitState

SpecRoundRobin == InitRoundRobin /\ [][Next]_vars

\* requests that overlap
InitConcurrent ==
    /\ PROXY_MASTER_KEY = None
    /\ BUILT_IN_GOOGLE_KEYS = Some(PlainSource(3))
    /\ env = [methods |-> {"GET"},
              auths |-> {None},
              keys |-> {None, Some(PlainSource(1))},
              others |-> {BaseHeaders},
              outcomes |-> {Responded(200, {}), Responded(429, {}), Responded(500, {})},
              inflight |-> MaxInFlight,
              history |-> FALSE]
    /\ InitState

Spec == InitConcurrent /\ [][Next]_vars

\* requests that overlap, with key sources that hold the same keys in the same order, in
\* another order, and put together into one key
InitIdentity ==
    /\ PROXY_MASTER_KEY = None
    /\ BUILT_IN_GOOGLE_KEYS = Some(PlainSource(2))
    /\ env = [methods |-> {"GET"},
              auths |-> {None},
              keys |-> {None, Some(ReversedSource(2)), Some(PaddedSource(2)),
                        Some(<<"a", "b">>)},
              others |-> {BaseHeaders},
              outcomes |-> {Responded(200, {}), Responded(429, {})},
              inflight |-> 2,
              history |-> FALSE]
    /\ InitState

SpecIdentity == InitIdentity /\ [][Next]_vars

\* one request at a time; every digest is computed and every upstream call returns a
\* response or fails
InitTermination ==
    /\ PROXY_MASTER_KEY = None
    /\ BUILT_IN_GOOGLE_KEYS = Some(PlainSource(MaxKeys))
    /\ env = [methods |-> {"GET", "POST"},
              auths |-> {None},
              keys |-> {None, Some(PlainSource(1)), Some(ReversedSource(2))},
              others |-> {BaseHeaders},
              outcomes |-> Outcomes({200, 429, 500}, {{}}),
              inflight |-> 1,
              history |-> FALSE]
    /\ InitState

SpecTermination ==
    /\ InitTermination
    /\ [][Next]_vars
    /\ \A r \in RequestIds : WF_vars(Digest(r)) /\ WF_vars(Settle(r))

\* requests that overlap, of every kind of ending: preflight, 401, 400, success, upstream
\* failure passed through, all keys failed
InitFrameEffect ==
    /\ PROXY_MASTER_KEY = Some(MasterKey)
    /\ BUILT_IN_GOOGLE_KEYS = None
    /\ env = [methods |-> {"OPTIONS", "GET"},
              auths |-> {None, Some(BEARER \o MasterKey)},
              keys |-> {None, Some(<<",">>), Some(PlainSource(1)), Some(PlainSource(2))},
              others |-> {BaseHeaders},
              outcomes |-> {Responded(200, {}), Responded(429, {}), Responded(500, {})},
              inflight |-> 2,
              history |-> FALSE]
    /\ InitState

SpecFrameEffect == InitFrameEffect /\ [][Next]_vars

----------------------------------------------------------------------------
(* Properties *)

Slots == Variants \X RequestIds
Frame(s) == req[s[1]][s[2]]
Length(rq) == Len(rq.googleApiKeys)
KeyAt(rq, keyIndex) == rq.googleApiKeys[keyIndex + 1]
IsSuccess(a) == a.status \in 200..299
Is4xx(a) == a.status \in 400..499
IsTransportFailure(a) == a.status = 0
Is5xx(a) == a.status \in 500..599
\* the entry of rotationState for the identity of the frame's key list
Stored(v, rq) == rotationState[v][rq.keysHash]
HasStored(v, rq) == rq.keysHash \in DOMAIN rotationState[v]

\* C1: when the key at index j returns a 2xx, the request tries no further key, the client
\* gets that upstream response's status and body, and the stored start index of the list's
\* identity is (j + 1) mod N
C1_SuccessEndsRequest ==
    \A s \in Slots :
      LET rq == Frame(s) IN
      \A k \in 1..Len(rq.attempts) :
        LET a == rq.attempts[k] IN
        IsSuccess(a) =>
          /\ k = Len(rq.attempts)
          /\ rq.pc = "done" /\ ~rq.call.made /\ ~rq.call.rejected
          /\ rq.response.status = a.status
          /\ rq.response.body = UpstreamBody(KeyAt(rq, a.keyIndex), a.status)
          /\ HasStored(s[1], rq)
          /\ Stored(s[1], rq) = (a.keyIndex + 1) % Length(rq)

\* C1, the example: k1,k2,k3 with stored index 0; k1 returns 429, k2 returns 200
C1_Witness ==
    \E s \in Slots :
      LET rq == Frame(s) IN
      /\ rq.pc = "done"
      /\ rq.googleApiKeys = <<(<<"a">>), (<<"b">>), (<<"c">>)>>
      /\ rq.startIndex = 0
      /\ Len(rq.attempts) = 2
      /\ rq.attempts[1].keyIndex = 0 /\ rq.attempts[1].status = 429
      /\ rq.attempts[2].keyIndex = 1 /\ rq.attempts[2].status = 200
      /\ rq.response.body.key = <<"b">>
      /\ Stored(s[1], rq) = 2

\* C2: after a 4xx from the key at index k the request's next attempt uses index
\* (k + 1) mod N, and no failed attempt writes the rotation state: from the read of the
\* start index to the request's outcome the rotation state stays as it was read
C2_FailoverWithoutWrite ==
    /\ [](\A s \in Slots :
            LET rq == Frame(s) IN
            /\ \A k \in 1..Len(rq.attempts) :
                 Is4xx(rq.attempts[k]) =>
                   /\ k < Len(rq.attempts) =>
                        rq.attempts[k + 1].keyIndex
                          = (rq.attempts[k].keyIndex + 1) % Length(rq)
                   /\ (k = Len(rq.attempts) /\ rq.pc = "fetch") =>
                        /\ rq.keyIndex = (rq.attempts[k].keyIndex + 1) % Length(rq)
                        /\ HeadersGet(rq.call.headers, "x-goog-api-key")
                             = Some(KeyAt(rq, rq.keyIndex))
            /\ rq.pc = "fetch" =>
                 /\ rq.writes = 0
                 /\ StartIndexOf(rotationState[s[1]], rq.keysHash) = rq.startIndex)
    /\ [][\A s \in Slots :
            (Frame(s).pc = "fetch" /\ req'[s[1]][s[2]].pc = "fetch")
              => rotationState'[s[1]] = rotationState[s[1]]]_vars

\* C2: a request whose first key returned a 4xx awaits its second key
C2_Witness ==
    \E s \in Slots :
      LET rq == Frame(s) IN
      /\ rq.pc = "fetch" /\ Length(rq) = 3 /\ rq.startIndex = 2
      /\ Len(rq.attempts) = 1 /\ Is4xx(rq.attempts[1]) /\ rq.attempts[1].keyIndex = 2
      /\ rq.keyIndex = 0 /\ rq.call.made
      /\ Stored(s[1], rq) = 2

AllFailedBody == JsonError("All provided Google API Keys failed.")

\* the first key index that a request arriving now, with the key list of rq, would try
NextFirstKeyIndex(v, rq) ==
    HandlerAfterDigest(rotationState[v],
                       [IdleFrame EXCEPT !.pc = "sha256", !.request = rq.request,
                                         !.googleApiKeys = rq.googleApiKeys]).keyIndex

\* C3: when each of the N attempts of a request ended in a 4xx or in a transport failure,
\* the client gets 502 with the JSON error body, the stored start index of the list's
\* identity is 0, and the next request with the same list tries the key at index 0 first
C3_AllKeysFailed ==
    \A s \in Slots :
      LET rq == Frame(s) IN
      (/\ rq.attempts # <<>>
       /\ Len(rq.attempts) = Length(rq)
       /\ \A k \in 1..Len(rq.attempts) :
            Is4xx(rq.attempts[k]) \/ IsTransportFailure(rq.attempts[k]))
      => /\ rq.pc = "done"
         /\ rq.response.status = 502
         /\ rq.response.body = AllFailedBody
         /\ HasStored(s[1], rq) /\ Stored(s[1], rq) = 0
         /\ NextFirstKeyIndex(s[1], rq) = 0

\* C3: three keys, started at index 1, a mix of 4xx answers and a transport failure
C3_Witness ==
    \E s \in Slots :
      LET rq == Frame(s) IN
      /\ rq.pc = "done" /\ Length(rq) = 3 /\ rq.startIndex = 1
      /\ Len(rq.attempts) = 3
      /\ Is4xx(rq.attempts[1]) /\ IsTransportFailure(rq.attempts[2]) /\ Is4xx(rq.attempts[3])
      /\ \A k \in 1..3 : rq.attempts[k].made
      /\ rq.response.status = 502

\* C4: when a key returns a 5xx the request stops at that key, tries no key after it, and
\* the client gets that upstream response's status and body
C4_ServerErrorEndsRequest ==
    \A s \in Slots :
      LET rq == Frame(s) IN
      \A k \in 1..Len(rq.attempts) :
        LET a == rq.attempts[k] IN
        Is5xx(a) =>
          /\ k = Len(rq.attempts)
          /\ rq.pc = "done" /\ ~rq.call.made /\ ~rq.call.rejected
          /\ rq.response.status = a.status
          /\ rq.response.body = UpstreamBody(KeyAt(rq, a.keyIndex), a.status)

\* C4: the second of three keys returns a 500, the third is never tried
C4_Witness ==
    \E s \in Slots :
      LET rq == Frame(s) IN
      /\ rq.pc = "done" /\ Length(rq) = 3
      /\ Len(rq.attempts) = 2 /\ Is4xx(rq.attempts[1]) /\ rq.attempts[2].status = 500
      /\ rq.response.status = 500

\* the number of keys of the list with identity h: the digest is taken to be free of
\* collisions, and a key holds no comma
ListLengthOf(h) == Len(Split(Tail(h), ","))

\* C5: N requests with the same list, one after another, each succeeding on its first
\* key, use the keys at indices s, s+1, ..., s+N-1 (mod N) in that order, s being the
\* stored start index: each of the N keys is used exactly once
C5_RoundRobin ==
    /\ \A s \in Slots :
         LET rq == Frame(s) IN
         (rq.pc = "done" /\ Len(rq.attempts) = 1 /\ IsSuccess(rq.attempts[1]))
           => rq.attempts[1].keyIndex = rq.startIndex
    /\ \A s \in Slots :
         LET rq == Frame(s) IN
         rq.pc = "fetch" /\ rq.attempts = <<>> /\ HasStored(s[1], rq)
           => rq.startIndex = Stored(s[1], rq)
    /\ \A v \in Variants : \A h \in DOMAIN streak[v] :
         LET used == streak[v][h]
             n == ListLengthOf(h)
         IN  /\ Len(used) <= n
             /\ \A k \in 1..(Len(used) - 1) : used[k + 1] = (used[k] + 1) % n
             /\ \A j, k \in 1..Len(used) : j # k => used[j] # used[k]
             /\ Len(used) = n => {used[k] : k \in 1..n} = 0..(n - 1)

\* C5: three requests over three keys, the first of them started at the stored index 1
C5_Witness ==
    \E v \in Variants : \E h \in DOMAIN streak[v] :
      /\ ListLengthOf(h) = 3
      /\ streak[v][h] = <<1, 2, 0>>
      /\ rotationState[v][h] = 1

\* the request presents the master credential, or none is configured
Authorized(rq) ==
    LET token == ClientAuthToken(rq.request.headers) IN
    Truthy(PROXY_MASTER_KEY) => (token.present /\ token.val = PROXY_MASTER_KEY.val)

NoUpstreamCall(rq) == rq.attempts = <<>> /\ ~rq.call.made /\ ~rq.call.rejected

\* C6: with a master credential configured, a request that is not OPTIONS and whose bearer
\* token (the Authorization value without "Bearer ") is absent or is not the master
\* credential gets 401 with a JSON error body and causes no upstream call, keys or no keys
C6_Unauthorized ==
    \A s \in Slots :
      LET rq == Frame(s)
          token == ClientAuthToken(rq.request.headers)
      IN  (/\ rq.pc # "idle"
           /\ rq.request.method # "OPTIONS"
           /\ PROXY_MASTER_KEY.present /\ PROXY_MASTER_KEY.val # <<>>
           /\ (~token.present \/ token.val # PROXY_MASTER_KEY.val))
          => /\ rq.pc = "done"
             /\ rq.response.status = 401
             /\ rq.response.body.kind = "json" /\ rq.response.body.error # ""
             /\ NoUpstreamCall(rq)
             /\ rq.reads = 0 /\ rq.writes = 0

\* C6: a wrong token and no key source at all: 401, not 400
C6_Witness ==
    \E s \in Slots :
      LET rq == Frame(s) IN
      /\ rq.pc = "done" /\ rq.request.method = "POST"
      /\ PROXY_MASTER_KEY = Some(MasterKey)
      /\ HeadersGet(rq.request.headers, "authorization") = Some(BEARER \o <<"w">>)
      /\ ~HeadersHas(rq.request.headers, "x-google-api-key")
      /\ ~BUILT_IN_GOOGLE_KEYS.present
      /\ rq.response.status = 401

\* the string holds nothing but commas and blanks
NoKeyIn(str) == \A k \in 1..Len(str) : str[k] \in {","} \cup WhiteSpace

\* C7: for an authorized request that is not OPTIONS the key source is the x-google-api-key
\* header when present and not empty, else the configured default; with neither the answer
\* is 400 "no keys provided", with a source that holds no key it is 400 "keys list is
\* empty", and neither case calls the upstream
C7_KeySource ==
    \A s \in Slots :
      LET rq == Frame(s)
          header == HeadersGet(rq.request.headers, "x-google-api-key")
          source == IF header.present /\ header.val # <<>>
                    THEN header.val
                    ELSE IF BUILT_IN_GOOGLE_KEYS.present THEN BUILT_IN_GOOGLE_KEYS.val
                    ELSE <<>>
      IN  (rq.pc # "idle" /\ rq.request.method # "OPTIONS" /\ Authorized(rq))
          => IF source = <<>>
             THEN /\ rq.pc = "done" /\ rq.response.status = 400
                  /\ rq.response.body = JsonError("No Google API Keys were provided.")
                  /\ NoUpstreamCall(rq)
             ELSE IF NoKeyIn(source)
             THEN /\ rq.pc = "done" /\ rq.response.status = 400
                  /\ rq.response.body = JsonError("Google API Keys list is empty.")
                  /\ NoUpstreamCall(rq)
             ELSE /\ rq.googleApiKeys = ParseKeys(source)
                  /\ rq.googleApiKeys # <<>>
                  /\ rq.response.status # 400

\* C7: the header " , , " against a configured default: 400 "keys list is empty"
C7_Witness ==
    \E s \in Slots :
      LET rq == Frame(s) IN
      /\ rq.pc = "done"
      /\ HeadersGet(rq.request.headers, "x-google-api-key")
           = Some(<<" ", ",", " ", ",", " ">>)
      /\ BUILT_IN_GOOGLE_KEYS = Some(PlainSource(2))
      /\ rq.response.status = 400
      /\ rq.response.body.error = "Google API Keys list is empty."

\* C8: an OPTIONS request gets 204 with the CORS headers whatever the master credential,
\* the default key list, its Authorization header and its key header are; it calls no
\* upstream and neither reads nor writes the rotation state
C8_Preflight ==
    /\ [](\A s \in Slots :
            LET rq == Frame(s) IN
            (rq.pc # "idle" /\ rq.request.method = "OPTIONS")
              => /\ rq.pc = "done"
                 /\ rq.response.status = 204
                 /\ <<ALLOW_ORIGIN, <<"*">>>> \in rq.response.headers
                 /\ HeadersHas(rq.response.headers, "access-control-allow-methods")
                 /\ HeadersHas(rq.response.headers, "access-control-allow-headers")
                 /\ NoUpstreamCall(rq)
                 /\ rq.reads = 0 /\ rq.writes = 0)
    /\ [][(\E s \in Slots : /\ req'[s[1]][s[2]] # Frame(s)
                            /\ req'[s[1]][s[2]].request.method = "OPTIONS")
            => rotationState' = rotationState]_vars

\* C8: an OPTIONS request without Authorization and without keys, against a configured
\* master credential and no default key list
C8_Witness ==
    \E s \in Slots :
      LET rq == Frame(s) IN
      /\ rq.pc = "done" /\ rq.request.method = "OPTIONS"
      /\ PROXY_MASTER_KEY = Some(MasterKey) /\ ~BUILT_IN_GOOGLE_KEYS.present
      /\ ~HeadersHas(rq.request.headers, "authorization")
      /\ ~HeadersHas(rq.request.headers, "x-google-api-key")
      /\ rq.response.status = 204

\* C9: every response the handler returns carries Access-Control-Allow-Origin: *
C9_EveryResponseHasCors ==
    \A s \in Slots :
      Frame(s).pc = "done" => <<ALLOW_ORIGIN, <<"*">>>> \in Frame(s).response.headers

\* C10: every entry of the rotation state is an index into the key list of its identity,
\* and every key index a request computes is an index into its key list
C10_IndexInRange ==
    /\ \A v \in Variants : \A h \in DOMAIN rotationState[v] :
         rotationState[v][h] \in 0..(ListLengthOf(h) - 1)
    /\ \A s \in Slots :
         LET rq == Frame(s) IN
         rq.pc \in {"fetch", "done"} /\ rq.googleApiKeys # <<>>
           => /\ ListLengthOf(rq.keysHash) = Length(rq)
              /\ rq.startIndex \in 0..(Length(rq) - 1)
              /\ rq.keyIndex \in 0..(Length(rq) - 1)
              /\ \A k \in 1..Len(rq.attempts) :
                   rq.attempts[k].keyIndex \in 0..(Length(rq) - 1)

\* C10: two requests with the same three keys overlap; one wrapped from index 2 to index 0
\* while the other moved the stored index on
C10_Witness ==
    \E v \in Variants : \E p, q \in RequestIds :
      /\ p # q
      /\ req[v][p].pc = "fetch" /\ req[v][q].pc = "done"
      /\ req[v][p].keysHash = req[v][q].keysHash
      /\ Length(req[v][p]) = 3
      /\ req[v][p].startIndex = 2 /\ req[v][p].keyIndex = 0
      /\ req[v][q].startIndex = 2 /\ IsSuccess(req[v][q].attempts[Len(req[v][q].attempts)])
      /\ rotationState[v][req[v][p].keysHash] = 0

\* an attempt after which the loop goes on to the next key
Retryable(a) == Is4xx(a) \/ IsTransportFailure(a)

\* C11: however the requests of one identity interleave, each request tries the keys in
\* cyclic order from the start index it read, no key twice, goes on only after a 4xx or a
\* transport failure and stops at the latest after N keys; its response is the one its
\* own attempts determine: the upstream response of its last attempt, or the 502 when all
\* N attempts were 4xx or transport failures
C11_CyclicOrderUnderInterleaving ==
    \A s \in Slots :
      LET rq == Frame(s)
          n == Length(rq)
          tried == Len(rq.attempts)
      IN  (rq.pc \in {"fetch", "done"} /\ n > 0)
          => /\ rq.startIndex \in 0..(n - 1)
             /\ tried <= n
             /\ \A k \in 1..tried : rq.attempts[k].keyIndex = (rq.startIndex + k - 1) % n
             /\ \A j, k \in 1..tried :
                  j # k => rq.attempts[j].keyIndex # rq.attempts[k].keyIndex
             /\ \A k \in 1..(tried - 1) : Retryable(rq.attempts[k])
             /\ rq.pc = "fetch"
                  => /\ tried < n
                     /\ tried > 0 => Retryable(rq.attempts[tried])
                     /\ rq.keyIndex = (rq.startIndex + tried) % n
                     /\ \A k \in 1..tried : rq.attempts[k].keyIndex # rq.keyIndex
             /\ rq.pc = "done"
                  => /\ tried >= 1
                     /\ LET last == rq.attempts[tried] IN
                        IF Retryable(last)
                        THEN /\ tried = n
                             /\ rq.response.status = 502
                             /\ rq.response.body = AllFailedBody
                        ELSE /\ rq.response.status = last.status
                             /\ rq.response.body
                                  = UpstreamBody(KeyAt(rq, last.keyIndex), last.status)

\* C11: two requests of one identity both read the start index 0 and both tried the key at
\* index 0: one succeeded and stored 1, the other got a 4xx and now awaits the key at
\* index 1, the index it computed from the start index it read
C11_Witness ==
    \E v \in Variants : \E p, q \in RequestIds :
      /\ p # q
      /\ req[v][p].keysHash = req[v][q].keysHash
      /\ Length(req[v][p]) = 3
      /\ req[v][p].pc = "fetch" /\ req[v][p].startIndex = 0
      /\ Len(req[v][p].attempts) = 1 /\ Is4xx(req[v][p].attempts[1])
      /\ req[v][p].attempts[1].keyIndex = 0 /\ req[v][p].keyIndex = 1
      /\ req[v][q].pc = "done" /\ req[v][q].startIndex = 0
      /\ req[v][q].attempts = <<[keyIndex |-> 0, status |-> 200, made |-> TRUE]>>
      /\ rotationState[v][req[v][p].keysHash] = 1

\* C12: an upstream 4xx is never what the client gets: a request one of whose attempts got
\* a 4xx answers with the upstream response of a later attempt that was neither a 4xx nor a
\* transport failure, or with the synthesized 502 "all keys failed"
C12_ClientErrorNeverSurfaced ==
    \A s \in Slots :
      LET rq == Frame(s)
          tried == Len(rq.attempts)
      IN  rq.pc = "done" =>
            \A k \in 1..tried :
              LET a == rq.attempts[k]
                  last == rq.attempts[tried]
              IN  Is4xx(a) =>
                    /\ rq.response.body # UpstreamBody(KeyAt(rq, a.keyIndex), a.status)
                    /\ rq.response.status \notin 400..499
                    /\ \/ /\ k < tried
                          /\ ~Retryable(last)
                          /\ rq.response.status = last.status
                          /\ rq.response.body
                               = UpstreamBody(KeyAt(rq, last.keyIndex), last.status)
                       \/ /\ rq.response.status = 502
                          /\ rq.response.body = AllFailedBody
                          /\ CONTENT_TYPE_JSON \in rq.response.headers

\* C12: the last key tried returned a 4xx as did the one before: the client gets the 502
C12_Witness ==
    \E s \in Slots :
      LET rq == Frame(s) IN
      /\ rq.pc = "done" /\ Length(rq) = 2
      /\ Len(rq.attempts) = 2
      /\ rq.attempts[1].status = 400 /\ rq.attempts[2].status = 499
      /\ rq.attempts[2].made
      /\ rq.response.status = 502

\* the key lists that the key sources of this run parse to
ParsedLists ==
    {ParseKeys(o.val) : o \in {o \in env.keys \cup {BUILT_IN_GOOGLE_KEYS} : Truthy(o)}}
      \ {<<>>}

\* the identity of a parsed key list
IdentityOf(googleApiKeys) == sha256(Join(googleApiKeys))

\* a handler that has computed the identity of its key list
PastDigest(rq) == rq.pc \in {"fetch", "done"} /\ rq.googleApiKeys # <<>>

\* C13: the identity is a function of the parsed key list that tells lists apart: equal
\* parsed lists have the same identity, lists that differ in a key or in the order of the
\* keys have different identities; this holds of the lists the key sources parse to and of
\* the identities the handlers computed, whatever source string a list was parsed from
C13_ListIdentity ==
    /\ \A x, y \in ParsedLists : (x = y) <=> (IdentityOf(x) = IdentityOf(y))
    /\ \A s, t \in Slots :
         (PastDigest(Frame(s)) /\ PastDigest(Frame(t)))
           => ((Frame(s).googleApiKeys = Frame(t).googleApiKeys)
                 <=> (Frame(s).keysHash = Frame(t).keysHash))
    /\ \A s \in Slots :
         PastDigest(Frame(s)) =>
           /\ Frame(s).googleApiKeys \in ParsedLists
           /\ \A x \in ParsedLists :
                (x = Frame(s).googleApiKeys) <=> (IdentityOf(x) = Frame(s).keysHash)

\* C13: the list a,b came from the default of the configuration for one request and from
\* the header " a , ,b , ," for another: the second read the index the first stored; the
\* list b,a has an entry of its own
C13_Witness ==
    \E v \in Variants : \E p, q \in RequestIds :
      /\ p # q
      /\ ~HeadersHas(req[v][q].request.headers, "x-google-api-key")
      /\ HeadersGet(req[v][p].request.headers, "x-google-api-key") = Some(PaddedSource(2))
      /\ req[v][q].pc = "done" /\ req[v][q].startIndex = 0
      /\ req[v][q].attempts = <<[keyIndex |-> 0, status |-> 200, made |-> TRUE]>>
      /\ req[v][p].pc = "fetch" /\ req[v][p].attempts = <<>>
      /\ req[v][p].keysHash = req[v][q].keysHash
      /\ req[v][p].startIndex = 1
      /\ IdentityOf(<<(<<"b">>), (<<"a">>)>>) \in DOMAIN rotationState[v]
      /\ IdentityOf(<<(<<"b">>), (<<"a">>)>>) # req[v][p].keysHash

\* C14: when the master credential is unset or empty no request gets a 401: whatever its
\* Authorization header is, a request that is not OPTIONS goes on to the key resolution
\* (400 when that finds no key) and with a key to the upstream
C14_NoCredentialNoRejection ==
    ~Truthy(PROXY_MASTER_KEY) =>
      \A s \in Slots :
        LET rq == Frame(s) IN
        rq.pc # "idle" =>
          /\ rq.response.status # 401
          /\ rq.request.method # "OPTIONS" =>
               IF rq.googleApiKeys = <<>>
               THEN /\ rq.pc = "done" /\ rq.response.status = 400
                    /\ NoUpstreamCall(rq)
               ELSE /\ rq.pc = "fetch" => rq.call.made \/ rq.call.rejected
                    /\ rq.pc = "done" => rq.attempts # <<>>

\* C14: the master credential is the empty string, the request carries a token: it is
\* forwarded and answered by the upstream
C14_Witness ==
    \E s \in Slots :
      LET rq == Frame(s) IN
      /\ PROXY_MASTER_KEY = Some(<<>>)
      /\ rq.pc = "done" /\ rq.request.method = "GET"
      /\ HeadersGet(rq.request.headers, "authorization") = Some(BEARER \o <<"w">>)
      /\ Len(rq.attempts) = 1 /\ rq.attempts[1].made
      /\ rq.response.status = 200

\* the attempt k of the frame rq took the success path: the request ended there with the
\* upstream response and the CORS header, and stored (keyIndex + 1) mod N
TookSuccessPath(v, rq, k) ==
    LET a == rq.attempts[k] IN
    /\ k = Len(rq.attempts) /\ rq.pc = "done"
    /\ rq.writes = 1
    /\ HasStored(v, rq) /\ Stored(v, rq) = (a.keyIndex + 1) % Length(rq)
    /\ rq.response.status = a.status
    /\ rq.response.body = UpstreamBody(KeyAt(rq, a.keyIndex), a.status)
    /\ <<ALLOW_ORIGIN, <<"*">>>> \in rq.response.headers

\* after the attempt k the request went on to the next key, or to the 502 after the last
WentOn(v, rq, k) ==
    LET a == rq.attempts[k] IN
    IF k < Len(rq.attempts)
    THEN rq.attempts[k + 1].keyIndex = (a.keyIndex + 1) % Length(rq)
    ELSE IF k < Length(rq)
    THEN rq.pc = "fetch" /\ rq.writes = 0 /\ rq.keyIndex = (a.keyIndex + 1) % Length(rq)
    ELSE rq.pc = "done" /\ rq.response.status = 502

\* the attempt k ended the request with the upstream response, the stored index left as
\* the request read it
ReturnedAtOnce(v, rq, k) ==
    LET a == rq.attempts[k] IN
    /\ k = Len(rq.attempts) /\ rq.pc = "done"
    /\ rq.writes = 0
    /\ StartIndexOf(rotationState[v], rq.keysHash) = rq.startIndex
    /\ rq.response.status = a.status
    /\ rq.response.body = UpstreamBody(KeyAt(rq, a.keyIndex), a.status)

\* C15 as stated: an upstream status in 200..399 takes the success path and advances the
\* stored index, a status in 400..499 makes the request go on, any other status is
\* returned at once
C15_ThreeOutcomesWith3xxSuccess ==
    \A s \in Slots :
      LET rq == Frame(s) IN
      \A k \in 1..Len(rq.attempts) :
        LET st == rq.attempts[k].status IN
        st # 0 =>
          IF st \in 200..399 THEN TookSuccessPath(s[1], rq, k)
          ELSE IF st \in 400..499 THEN WentOn(s[1], rq, k)
          ELSE ReturnedAtOnce(s[1], rq, k)

\* C15, amended: an upstream status in 200..299 takes the success path and advances the
\* stored index to (keyIndex + 1) mod N, a status in 400..499 makes the request go on with
\* the next key, and any other status, a 3xx included, is returned at once without a write
\* of the rotation state; the three outcomes exclude one another
C15_ThreeOutcomes ==
    \A s \in Slots :
      LET rq == Frame(s) IN
      \A k \in 1..Len(rq.attempts) :
        LET st == rq.attempts[k].status
            success == TookSuccessPath(s[1], rq, k)
            goesOn == WentOn(s[1], rq, k)
            returned == ReturnedAtOnce(s[1], rq, k)
        IN  st # 0 =>
              /\ success <=> st \in 200..299
              /\ goesOn <=> st \in 400..499
              /\ returned <=> st \notin 200..299 \cup 400..499

\* C15: the stored index of a list of three keys is 1; the key at index 1 returns a 4xx,
\* the key at index 2 a 304, which the client gets while the stored index stays 1
C15_Witness ==
    \E s \in Slots :
      LET rq == Frame(s) IN
      /\ rq.pc = "done" /\ Length(rq) = 3 /\ rq.startIndex = 1
      /\ Len(rq.attempts) = 2
      /\ Is4xx(rq.attempts[1]) /\ rq.attempts[2].status = 304
      /\ rq.attempts[2].keyIndex = 2
      /\ rq.response.status = 304
      /\ Stored(s[1], rq) = 1

\* C16: every attempt of a request, a failover attempt after a 4xx or a transport failure
\* included, reaches the upstream with the method, the path and query, and the body of the
\* inbound request
C16_EveryAttemptCarriesRequest ==
    \A s \in Slots :
      LET rq == Frame(s) IN
      /\ rq.pc = "fetch"
           => /\ rq.call.made /\ ~rq.call.rejected
              /\ rq.call.method = rq.request.method
              /\ rq.call.url = GOOGLE_API_HOST \o rq.request.url
              /\ rq.call.body = rq.request.body
      /\ \A k \in 1..Len(rq.attempts) : rq.attempts[k].made

\* the headers that the proxy sets or strips
ProxyHeaderNames == {"host", "x-goog-api-key", "authorization", "x-google-api-key"}

\* C17: the request a handler sends to the upstream carries x-goog-api-key with the one key
\* selected for the attempt and no other value, in particular not the one the client sent;
\* it carries neither Authorization nor x-google-api-key, and no header of it holds the
\* value of either; its host is the upstream's; every other header is the inbound one
C17_OutboundHeaders ==
    \A s \in Slots :
      LET rq == Frame(s)
          outbound == rq.call.headers
          inbound == rq.request.headers
      IN  rq.pc = "fetch" =>
            /\ {p \in outbound : p[1] = "x-goog-api-key"}
                 = {<<"x-goog-api-key", KeyAt(rq, rq.keyIndex)>>}
            /\ ~HeadersHas(outbound, "authorization")
            /\ ~HeadersHas(outbound, "x-google-api-key")
            /\ \A p \in outbound : \A q \in inbound :
                 q[1] \in {"authorization", "x-google-api-key"} /\ Len(rq.googleApiKeys) > 1
                   => p[2] # q[2]
            /\ \A p \in outbound : HeadersGet(inbound, "authorization") # Some(p[2])
            /\ {p \in outbound : p[1] = "host"} = {<<"host", GOOGLE_API_HOSTNAME>>}
            /\ {p \in outbound : p[1] \notin ProxyHeaderNames}
                 = {p \in inbound : p[1] \notin ProxyHeaderNames}

\* C17: the client sent Authorization, the key list b,a and an x-goog-api-key of its own;
\* the failover attempt is sent with the key a
C17_Witness ==
    \E s \in Slots :
      LET rq == Frame(s) IN
      /\ rq.pc = "fetch" /\ rq.call.made
      /\ HeadersGet(rq.request.headers, "authorization") = Some(BEARER \o MasterKey)
      /\ HeadersGet(rq.request.headers, "x-google-api-key") = Some(ReversedSource(2))
      /\ HeadersGet(rq.request.headers, "x-goog-api-key") = Some(<<"z">>)
      /\ Len(rq.attempts) = 1 /\ rq.keyIndex = 1
      /\ HeadersGet(rq.call.headers, "x-goog-api-key") = Some(<<"a">>)
      /\ HeadersGet(rq.call.headers, "content-type") = Some(<<"application/json">>)

\* the key indices of the upstream calls that the request of frame rq has made so far,
\* in the order of the calls
RECURSIVE CallsOf(_)
CallsOf(attempts) ==
    IF attempts = <<>> THEN <<>>
    ELSE LET before == CallsOf(SubSeq(attempts, 1, Len(attempts) - 1))
             a == attempts[Len(attempts)]
         IN  IF a.made THEN Append(before, a.keyIndex) ELSE before

UpstreamCalls(rq) ==
    CallsOf(rq.attempts) \o (IF rq.pc = "fetch" /\ rq.call.made THEN <<rq.keyIndex>> ELSE <<>>)

\* the frame comes from the handler's entry: a request that has just arrived
FreshFrame(rq) == rq.attempts = <<>> /\ rq.reads = 0 /\ rq.writes = 0 /\ rq.i = 0

\* C18: a request whose digest is computed and whose upstream calls each return or fail
\* ends with a response, and its response, once given, is not followed by another; over a
\* list of N keys it makes at most N upstream calls, no two of them with the same key
\* index, and N calls only when each of the N - 1 attempts before the last was a 4xx or a
\* transport failure
C18_Termination ==
    /\ [](\A s \in Slots :
            LET rq == Frame(s)
                n == Length(rq)
                calls == UpstreamCalls(rq)
            IN  /\ Len(calls) <= n
                /\ Len(rq.attempts) <= n /\ rq.i <= n
                /\ \A j, k \in 1..Len(calls) : j # k => calls[j] # calls[k]
                /\ (n > 0 /\ Len(calls) = n)
                     => \A k \in 1..(n - 1) :
                          k <= Len(rq.attempts) /\ Retryable(rq.attempts[k])
                /\ rq.pc = "done" => rq.response # NoResponse /\ rq.call = NoCall
                /\ Running(rq) => rq.response = NoResponse)
    /\ [][\A s \in Slots :
            LET rq == Frame(s)
                after == req'[s[1]][s[2]]
            IN  rq.pc = "done" => (after = rq \/ after = IdleFrame \/ FreshFrame(after))]_vars
    /\ \A s \in Slots : Running(Frame(s)) ~> (Frame(s).pc = "done")

\* C18: three keys and three upstream calls: a transport failure, a 4xx, and a success
\* on the last key
C18_Witness ==
    \E s \in Slots :
      LET rq == Frame(s) IN
      /\ rq.pc = "done" /\ Length(rq) = 3
      /\ Len(UpstreamCalls(rq)) = 3
      /\ IsTransportFailure(rq.attempts[1]) /\ Is4xx(rq.attempts[2])
      /\ IsSuccess(rq.attempts[3])
      /\ rq.response.status = rq.attempts[3].status

\* the request of frame rq ended without a success and without "all keys failed": in the
\* preflight answer, a 401, a 400, or an upstream answer passed through
EndedWithoutWrite(rq) ==
    /\ rq.pc = "done"
    /\ \/ rq.attempts = <<>> /\ rq.response.status \in {204, 401, 400}
       \/ /\ rq.attempts # <<>>
          /\ ~IsSuccess(rq.attempts[Len(rq.attempts)])
          /\ ~Retryable(rq.attempts[Len(rq.attempts)])

\* C19: a request writes the rotation state at most once, and then the entry of its own
\* identity only: a step of a handler leaves every other entry as it was and removes none;
\* a step that ends a request in the preflight 204, a 401, a 400 or a passed-through
\* upstream failure leaves the rotation state unchanged, as does every step that does not
\* end a request
C19_FrameEffect ==
    /\ [](\A s \in Slots :
            LET rq == Frame(s) IN
            /\ rq.writes <= 1
            /\ rq.pc # "done" => rq.writes = 0
            /\ EndedWithoutWrite(rq) => rq.writes = 0)
    /\ [][\A v \in Variants :
            LET m == rotationState[v]
                after == rotationState'[v]
                ended == {r \in RequestIds :
                            req[v][r].pc # "done" /\ req'[v][r].pc = "done"}
            IN  /\ DOMAIN m \subseteq DOMAIN after
                /\ Cardinality(ended) <= 1
                /\ after # m
                     => \E r \in ended :
                          /\ req[v][r].pc = "fetch" /\ req[v][r].writes = 0
                          /\ req'[v][r].writes = 1
                          /\ ~EndedWithoutWrite(req'[v][r])
                          /\ DOMAIN after = DOMAIN m \cup {req[v][r].keysHash}
                          /\ \A h \in DOMAIN m : h # req[v][r].keysHash => after[h] = m[h]
                /\ (\E r \in ended : EndedWithoutWrite(req'[v][r])) => after = m
                /\ ended = {} => after = m]_vars

\* C19: the lists a and a,b each have an entry; a request over a,b was answered with the
\* upstream's 500 after a 4xx, and both entries are what they were when it read its start
\* index
C19_Witness ==
    \E s \in Slots :
      LET rq == Frame(s)
          other == IdentityOf(<<(<<"a">>)>>)
      IN  /\ rq.pc = "done" /\ Length(rq) = 2 /\ rq.startIndex = 1
          /\ Len(rq.attempts) = 2 /\ Is4xx(rq.attempts[1]) /\ Is5xx(rq.attempts[2])
          /\ rq.writes = 0
          /\ Stored(s[1], rq) = 1
          /\ other \in DOMAIN rotationState[s[1]] /\ other # rq.keysHash

\* what the client and the upstream see of a handler's frame, the response headers aside
Observed(rq) == [rq EXCEPT !.response.headers = {}]

\* C20: given the same requests and the same upstream outcomes, the handler of src/main.ts
\* and the handler of src/unnamed/part_000 make the same upstream attempts, give the same
\* status and body, and hold the same rotation state; each stops at its first 5xx, which
\* is its last attempt and its answer
C20_VariantsEquivalent ==
    /\ rotationState["main"] = rotationState["part000"]
    /\ \A r \in RequestIds :
         /\ Observed(req["main"][r]) = Observed(req["part000"][r])
         /\ req["main"][r].attempts = req["part000"][r].attempts
         /\ req["main"][r].response.status = req["part000"][r].response.status
         /\ req["main"][r].response.body = req["part000"][r].response.body
    /\ \A s \in Slots :
         LET rq == Frame(s) IN
         \A k \in 1..Len(rq.attempts) :
           Is5xx(rq.attempts[k])
             => /\ k = Len(rq.attempts) /\ rq.pc = "done"
                /\ rq.i = k - 1
                /\ rq.response.status = rq.attempts[k].status

\* C20: both variants got a 4xx from the first of three keys and a 500 from the second,
\* and both answered with the 500, the third key untried; the headers of the two answers
\* differ
C20_Witness ==
    \E r \in RequestIds :
      LET main == req["main"][r]
          part000 == req["part000"][r]
      IN  /\ main.pc = "done" /\ part000.pc = "done"
          /\ Length(main) = 3 /\ Len(main.attempts) = 2
          /\ Is4xx(main.attempts[1]) /\ main.attempts[2].status = 500
          /\ part000.attempts = main.attempts
          /\ main.response.status = 500 /\ part000.response.status = 500
          /\ main.response.headers # part000.response.headers
          /\ rotationState["main"] = rotationState["part000"]
          /\ rotationState["main"] # EmptyMap

====
